---- MODULE Spec2Model ----
(***************************************************************************)
(* Model of the two scripts of the repository:                             *)
(*   scripts/prepare_airdrop_csv.py   (AirdropCsvPreparer)                 *)
(*   scripts/calculate_src_coverage.py (CoverageSummarizer)                *)
(*                                                                         *)
(* Python's int is unbounded and decimal.Decimal carries a coefficient of  *)
(* arbitrarily many digits, so numbers are modelled as sequences of        *)
(* decimal digits (most significant first), not as machine integers.       *)
(***************************************************************************)
EXTENDS Integers, Sequences, FiniteSets, TLC

\* ------------------------------------------------------------------------
\* Bounds of the model
\* ------------------------------------------------------------------------
\* Longest input CSV (rows) the airdrop model reads.
MaxRows == 3
\* Longest coverage-tool output (lines) the coverage model parses.
MaxLines == 3

\* ------------------------------------------------------------------------
\* Unbounded naturals as digit sequences
\* ------------------------------------------------------------------------
Zeros(n) == [i \in 1..n |-> 0]

MinOfSet(S) == CHOOSE i \in S : \A j \in S : i <= j
MaxOfSet(S) == CHOOSE i \in S : \A j \in S : i >= j

\* s without its leading zeros (at least one digit stays)
StripZeros(s) ==
    LET nz == {i \in 1..Len(s) : s[i] # 0}
    IN  IF nz = {} THEN <<0>> ELSE SubSeq(s, MinOfSet(nz), Len(s))

MaxOf(a, b) == IF a >= b THEN a ELSE b

PadLeft(s, n) == Zeros(n - Len(s)) \o s

IsZeroMag(s) == \A i \in 1..Len(s) : s[i] = 0

\* -1, 0 or 1 as a < b, a = b, a > b
CmpMag(a, b) ==
    LET n  == MaxOf(Len(a), Len(b))
        pa == PadLeft(a, n)
        pb == PadLeft(b, n)
        df == {i \in 1..n : pa[i] # pb[i]}
    IN  IF df = {} THEN 0
        ELSE LET k == MinOfSet(df)
             IN  IF pa[k] < pb[k] THEN -1 ELSE 1

\* a + b. The carry into position i is 1 iff some position j to its right
\* generates a carry (digit sum >= 10) and every position between i and j
\* propagates it (digit sum = 9).
AddMag(a, b) ==
    LET n  == MaxOf(Len(a), Len(b)) + 1
        pa == PadLeft(a, n)
        pb == PadLeft(b, n)
        cin(i) == IF \E j \in (i + 1)..n :
                        /\ pa[j] + pb[j] >= 10
                        /\ \A k \in (i + 1)..(j - 1) : pa[k] + pb[k] = 9
                  THEN 1 ELSE 0
    IN  StripZeros([i \in 1..n |-> (pa[i] + pb[i] + cin(i)) % 10])

\* a - b for a >= b. The borrow from position i is 1 iff some position j to
\* its right needs one (pa[j] < pb[j]) and every position between passes it on.
SubMag(a, b) ==
    LET n  == MaxOf(Len(a), Len(b))
        pa == PadLeft(a, n)
        pb == PadLeft(b, n)
        bin(i) == IF \E j \in (i + 1)..n :
                        /\ pa[j] < pb[j]
                        /\ \A k \in (i + 1)..(j - 1) : pa[k] = pb[k]
                  THEN 1 ELSE 0
    IN  StripZeros([i \in 1..n |-> (pa[i] - pb[i] - bin(i) + 10) % 10])

RECURSIVE MulDigit(_, _)
MulDigit(a, d) == IF d = 0 THEN <<0>> ELSE AddMag(MulDigit(a, d - 1), a)

\* a * b, schoolbook; the trailing zeros of b are shifted over in one step.
RECURSIVE MulMag(_, _)
MulMag(a, b) ==
    LET nz == {i \in 1..Len(b) : b[i] # 0}
    IN  IF nz = {} THEN <<0>>
        ELSE LET last == MaxOfSet(nz)
                 tz   == Len(b) - last
                 head == SubSeq(b, 1, last - 1)
             IN  StripZeros(
                   AddMag(MulMag(a, head) \o <<0>>, MulDigit(a, b[last])) \o Zeros(tz))

\* ------------------------------------------------------------------------
\* Python int: sign and magnitude
\* ------------------------------------------------------------------------
MkInt(sign, mag) ==
    LET m == StripZeros(mag)
    IN  [sign |-> IF IsZeroMag(m) THEN 0 ELSE sign, mag |-> m]

\* 10 ** decimals
IntPow10(d) == MkInt(0, <<1>> \o Zeros(d))

\* a >= b on Python ints
IntGE(a, b) ==
    IF a.sign = 0 /\ b.sign = 0 THEN CmpMag(a.mag, b.mag) >= 0
    ELSE IF a.sign = 0 /\ b.sign = 1 THEN TRUE
    ELSE IF a.sign = 1 /\ b.sign = 0 THEN FALSE
    ELSE CmpMag(a.mag, b.mag) <= 0

\* ------------------------------------------------------------------------
\* decimal.Decimal under the default context (prec 28, ROUND_HALF_EVEN)
\* ------------------------------------------------------------------------
\* decimal.getcontext().prec of the default context the script runs under.
Prec == 28

\* A finite Decimal: (-1)^sign * coef * 10^exp; "nan" and "inf" are the
\* special values Decimal() also accepts.
Dec(sign, coef, exp) == [kind |-> "num", sign |-> sign, coef |-> coef, exp |-> exp]
DecNaN == [kind |-> "nan", sign |-> 0, coef |-> <<0>>, exp |-> 0]
DecInf == [kind |-> "inf", sign |-> 0, coef |-> <<0>>, exp |-> 0]
DecZero == Dec(0, <<0>>, 0)

IsFinite(x) == x.kind = "num"

\* Drop the last k digits of c (k >= 1), rounding half to even.
RoundDropHalfEven(c, k) ==
    IF k > Len(c) THEN <<0>>
    ELSE LET kept == IF k = Len(c) THEN <<0>> ELSE SubSeq(c, 1, Len(c) - k)
             rest == SubSeq(c, Len(c) - k + 1, Len(c))
             tail == SubSeq(rest, 2, Len(rest))
             up   == \/ rest[1] > 5
                     \/ rest[1] = 5 /\ ~IsZeroMag(tail)
                     \/ rest[1] = 5 /\ IsZeroMag(tail) /\ kept[Len(kept)] % 2 = 1
         IN  IF up THEN AddMag(kept, <<1>>) ELSE StripZeros(kept)

\* Context rounding applied to the exact result of an arithmetic operation.
Round(x) ==
    LET c == StripZeros(x.coef)
    IN  IF Len(c) <= Prec THEN Dec(x.sign, c, x.exp)
        ELSE Dec(x.sign, RoundDropHalfEven(c, Len(c) - Prec), x.exp + (Len(c) - Prec))

\* The exact sum of two finite Decimals.
DecAddExact(x, y) ==
    LET e  == IF x.exp <= y.exp THEN x.exp ELSE y.exp
        cx == StripZeros(x.coef \o Zeros(x.exp - e))
        cy == StripZeros(y.coef \o Zeros(y.exp - e))
    IN  IF x.sign = y.sign THEN Dec(x.sign, AddMag(cx, cy), e)
        ELSE IF CmpMag(cx, cy) >= 0 THEN Dec(x.sign, SubMag(cx, cy), e)
        ELSE Dec(y.sign, SubMag(cy, cx), e)

\* Decimal.__add__ : a special operand gives the special value.
DecAdd(x, y) ==
    IF ~IsFinite(x) THEN x
    ELSE IF ~IsFinite(y) THEN y
    ELSE Round(DecAddExact(x, y))

\* Decimal.__mul__
DecMul(x, y) ==
    IF ~IsFinite(x) THEN x
    ELSE IF ~IsFinite(y) THEN y
    ELSE Round(Dec((x.sign + y.sign) % 2, MulMag(x.coef, y.coef), x.exp + y.exp))

\* Decimal(n) for a Python int n: exact.
DecimalFromInt(n) == Dec(n.sign, n.mag, 0)

\* Decimal.to_integral_value(rounding=ROUND_DOWN)
ToIntegralDown(x) ==
    IF ~IsFinite(x) \/ x.exp >= 0 THEN x
    ELSE LET c == StripZeros(x.coef)
             k == -x.exp
         IN  IF k >= Len(c) THEN Dec(x.sign, <<0>>, 0)
             ELSE Dec(x.sign, SubSeq(c, 1, Len(c) - k), 0)

\* int(Decimal): truncates toward zero; raises on NaN and Infinity.
Raised == [sign |-> 0, mag |-> <<>>]
IntOfDecimal(x) ==
    IF ~IsFinite(x) THEN Raised
    ELSE LET t == ToIntegralDown(x)
         IN  MkInt(t.sign, t.coef \o Zeros(t.exp))

\* format(x, '.10f') / format(x, '.6f'): quantize to `places` fraction digits
\* under the context rounding; the result is the printed digit string.
FormatF(x, places) ==
    IF ~IsFinite(x) THEN x
    ELSE IF x.exp >= -places
         THEN Dec(x.sign, StripZeros(x.coef \o Zeros(x.exp + places)), -places)
         ELSE Dec(x.sign, RoundDropHalfEven(StripZeros(x.coef), -places - x.exp), -places)

\* ------------------------------------------------------------------------
\* Inputs of the airdrop tool: literals, command lines, replies, rows
\* ------------------------------------------------------------------------
NoneVal == "<None>"
DecNone == [kind |-> "none", sign |-> 0, coef |-> <<0>>, exp |-> 0]
DecInvalid == [kind |-> "invalid", sign |-> 0, coef |-> <<0>>, exp |-> 0]

Nines(n) == [i \in 1..n |-> 9]

\* s.strip()
Strip(s) ==
    CASE s = " 1.999995" -> "1.999995"
      [] s = " 0xA "     -> "0xA"
      [] OTHER           -> s

\* Decimal(s) for the literals the model feeds in: exact, never rounded;
\* DecInvalid stands for decimal.InvalidOperation being raised.
DecimalOfStr(s) ==
    CASE s = "0.00001"   -> Dec(0, <<1>>, -5)
      [] s = "1.999995"  -> Dec(0, <<1, 9, 9, 9, 9, 9, 5>>, -6)
      [] s = "0.000009"  -> Dec(0, <<9>>, -6)
      [] s = "1.99999999999999999999999999995"
                         -> Dec(0, <<1>> \o Nines(28) \o <<5>>, -29)
      [] s = "-1.999995" -> Dec(1, <<1, 9, 9, 9, 9, 9, 5>>, -6)
      [] s = "-1E+28"    -> Dec(1, <<1>>, 28)
      [] s = "NaN"       -> DecNaN
      [] s = "Infinity"  -> DecInf
      [] OTHER           -> DecInvalid

\* sys.argv of a run
ArgvSet ==
    { <<"prog">>,
      <<"prog", "in.csv">>,
      <<"prog", "in.csv", "0xT">>,
      <<"prog", "in.csv", "0xT", "out.csv", "--min-amount",
        "1.99999999999999999999999999995">>,
      <<"prog", "in.csv", "0xT", "--min-amount", "NaN">>,
      <<"prog", "in.csv", "0xT", "--min-amount", "abc">> }

\* os.environ.get('RPC_URL')
EnvSet == {NoneVal, "", "http://rpc"}

\* What urlopen / json.loads / the reply can do to one eth_call.
\*   urlerror, timeout : urlopen raises
\*   badjson           : the body is not JSON
\*   rpc_error         : the reply holds an 'error' member
\*   result            : the reply holds 'result' = res
Reply(kind, res) == [kind |-> kind, res |-> res]
DecimalsReplies ==
    { Reply("urlerror", ""), Reply("timeout", ""), Reply("badjson", ""),
      Reply("rpc_error", ""), Reply("result", "0x"),
      Reply("result", "0x5"), Reply("result", "0x12") }
SymbolReplies ==
    { Reply("urlerror", ""), Reply("timeout", ""), Reply("badjson", ""),
      Reply("rpc_error", ""), Reply("result", ""), Reply("result", "0x"),
      Reply("result", "0x<bad utf-8>"), Reply("result", "0x<abi TKN>") }

\* The replies that carry the value asked for; every other one is a failure
\* of the call (network error, timeout, RPC error, undecodable result).
UsableDecimalsReplies == {Reply("result", "0x5"), Reply("result", "0x12")}
UsableSymbolReplies == {Reply("result", "0x<abi TKN>")}

\* Rows csv.reader can yield from the input file.
RowSet ==
    { <<"0xS">>,
      <<"0xG", "abc">>,
      <<"0xN", "NaN">>,
      <<" 0xA ", " 1.999995">>,
      <<"0xB", "0.000009">>,
      <<"0xC", "1.99999999999999999999999999995">>,
      <<"0xD", "-1.999995">>,
      <<"0xE", "-1E+28">> }

VARIABLES
    pc,             \* position of the running script
    argv,           \* sys.argv
    environ,        \* os.environ.get('RPC_URL')
    exit_code,      \* process exit status, -1 while running
    stdout,         \* what has been printed (message tags)
    rpc_log,        \* eth_call requests issued so far, each with whether
                    \* the call came back with a usable reply
    input_csv, token_address, output_csv, min_amount, rpc_url,
    decimals, symbol,
    in_opened,      \* input file has been opened
    out_opened,     \* output file has been created/truncated
    f_out,          \* lines written to the output file
    rows_read,      \* rows csv.reader has yielded so far
    min_scaled, total, total_original, count, dust_count, dust_total,
    amount, amount_int,     \* loop locals of prepare_csv
    report,         \* the figures printed at the end of prepare_csv
    \* calculate_src_coverage.py
    cov_pc,         \* position of the coverage script
    cov_stdout,     \* result.stdout.split('\n') of the coverage tool
    cov_i,          \* lines of cov_stdout the for loop has consumed
    covered, cov_total, files,
    cov_printed,    \* what the script has printed (message tags)
    cov_exit        \* exit status of the coverage script, -1 while running

airdropVars ==
    <<pc, argv, environ, exit_code, stdout, rpc_log, input_csv, token_address,
      output_csv, min_amount, rpc_url, decimals, symbol, in_opened, out_opened,
      f_out, rows_read, min_scaled, total, total_original, count, dust_count,
      dust_total, amount, amount_int, report>>

covVars == <<cov_pc, cov_stdout, cov_i, covered, cov_total, files, cov_printed, cov_exit>>

vars == <<airdropVars, covVars>>

NoReport == [recipients |-> 0, dust_count |-> 0, dust_total |-> DecNone,
             original_total |-> DecNone, final_total |-> DecNone]

AirdropInit ==
    /\ pc = "main"
    /\ argv \in ArgvSet
    /\ environ \in EnvSet
    /\ exit_code = -1
    /\ stdout = <<>>
    /\ rpc_log = <<>>
    /\ input_csv = NoneVal /\ token_address = NoneVal /\ output_csv = NoneVal
    /\ min_amount = DecNone
    /\ rpc_url = NoneVal
    /\ decimals = -1
    /\ symbol = NoneVal
    /\ in_opened = FALSE /\ out_opened = FALSE
    /\ f_out = <<>>
    /\ rows_read = <<>>
    /\ min_scaled = Raised
    /\ total = DecZero /\ total_original = DecZero /\ dust_total = DecZero
    /\ count = 0 /\ dust_count = 0
    /\ amount = DecNone /\ amount_int = Raised
    /\ report = NoReport

\* The coverage script is not running.
CovIdle ==
    /\ cov_pc = "idle"
    /\ cov_stdout = <<>>
    /\ cov_i = 0
    /\ covered = 0 /\ cov_total = 0
    /\ files = <<>>
    /\ cov_printed = <<>>
    /\ cov_exit = -1

\* ------------------------------------------------------------------------
\* prepare_airdrop_csv.py : pure parts
\* ------------------------------------------------------------------------
\* The option loop of __main__ (i is Python's 0-based index into sys.argv).
RECURSIVE ParseOptions(_, _, _, _)
ParseOptions(av, i, out, minA) ==
    IF ~(i < Len(av)) THEN [raised |-> FALSE, output_csv |-> out, min_amount |-> minA]
    ELSE IF av[i + 1] = "--min-amount" /\ i + 1 < Len(av)
         THEN LET m == DecimalOfStr(av[i + 2])
              IN  IF m.kind = "invalid"
                  THEN [raised |-> TRUE, output_csv |-> out, min_amount |-> minA]
                  ELSE ParseOptions(av, i + 2, out, m)
         ELSE ParseOptions(av, i + 1, av[i + 1], minA)

\* (a variant that tests `rpc_url is None` only)
FalsyNoneOnly(v) == v = NoneVal

\* `not rpc_url`
Falsy(v) == v = NoneVal \/ v = ""

\* int(s, 16) for the reply literals; -1 stands for ValueError.
IntBase16(s) ==
    CASE s = "0x5"  -> 5
      [] s = "0x12" -> 18
      [] OTHER      -> -1

\* get_token_decimals: the value returned, or raised = TRUE when urlopen,
\* json.loads, the 'error' check or int(..., 16) raises.
GetTokenDecimals(reply) ==
    IF reply.kind # "result" THEN [raised |-> TRUE, value |-> -1]
    ELSE LET v == IntBase16(reply.res)
         IN  IF v < 0 THEN [raised |-> TRUE, value |-> -1]
             ELSE [raised |-> FALSE, value |-> v]

\* The ABI string decoding of get_token_symbol for the reply literals;
\* NoneVal stands for bytes.fromhex / decode raising.
DecodeAbiString(res) ==
    CASE res = "0x<abi TKN>" -> "TKN"
      [] OTHER               -> NoneVal

\* len(result['result'][2:]) < 128
ShortHex(res) == res = "0x"

\* (a variant without the try/except: a failing call raises)
GetTokenSymbolNoTry(reply) ==
    IF reply \in UsableSymbolReplies
    THEN [raised |-> FALSE, value |-> DecodeAbiString(reply.res)]
    ELSE [raised |-> TRUE, value |-> NoneVal]

\* get_token_symbol: every exception is caught inside and gives "UNKNOWN".
GetTokenSymbol(reply) ==
    IF reply.kind \in {"urlerror", "timeout", "badjson"}
    THEN [raised |-> FALSE, value |-> "UNKNOWN"]
    ELSE IF reply.kind = "rpc_error" \/ reply.res = ""
    THEN [raised |-> FALSE, value |-> "UNKNOWN"]
    ELSE IF ShortHex(reply.res)
    THEN [raised |-> FALSE, value |-> "UNKNOWN"]
    ELSE IF DecodeAbiString(reply.res) = NoneVal
    THEN [raised |-> FALSE, value |-> "UNKNOWN"]
    ELSE [raised |-> FALSE, value |-> DecodeAbiString(reply.res)]

\* min_scaled = int(min_amount * Decimal(10 ** decimals))
MinScaled(minA, d) == IntOfDecimal(DecMul(minA, DecimalFromInt(IntPow10(d))))

\* scaled = amount * Decimal(10 ** decimals)
\* amount_int = int(scaled.to_integral_value(rounding=ROUND_DOWN))
ScaleAmount(a, d) ==
    IntOfDecimal(ToIntegralDown(DecMul(a, DecimalFromInt(IntPow10(d)))))

\* total / Decimal(10 ** decimals): the quotient by a power of ten
DecDivPow10(x, d) == Round(Dec(x.sign, x.coef, x.exp - d))

\* count += 1
CountAfter(c) == c + 1

\* (a variant that forgets to count a dust row)
DustCountForgotten(c) == c

\* dust_count += 1
DustCountAfter(c) == c + 1

\* (a variant that tries the fetch again instead of giving up)
OnFetchErrorRetry == "fetch_decimals"

\* where __main__ goes when fetching the token info raised: sys.exit(1)
OnFetchError == "exit"

\* ------------------------------------------------------------------------
\* prepare_airdrop_csv.py : steps
\* ------------------------------------------------------------------------
Exit(code, msg) ==
    /\ pc' = "exit"
    /\ exit_code' = code
    /\ stdout' = IF msg = NoneVal THEN stdout ELSE Append(stdout, msg)

\* An exception nobody catches: traceback, exit status 1.
Crash ==
    /\ pc' = "crashed"
    /\ exit_code' = 1
    /\ UNCHANGED stdout

\* if len(sys.argv) < 3: usage, exit(1); else take the two positionals
CheckArgs ==
    /\ pc = "main"
    /\ IF Len(argv) < 3
       THEN /\ Exit(1, "usage")
            /\ UNCHANGED <<input_csv, token_address>>
       ELSE /\ input_csv' = argv[2]
            /\ token_address' = argv[3]
            /\ pc' = "options"
            /\ UNCHANGED <<exit_code, stdout>>
    /\ UNCHANGED covVars
    /\ UNCHANGED <<argv, environ, rpc_log, output_csv, min_amount, rpc_url,
                   decimals, symbol, in_opened, out_opened, f_out, rows_read,
                   min_scaled, total, total_original, count, dust_count,
                   dust_total, amount, amount_int, report>>

\* the while loop over the optional arguments
ParseArgs ==
    /\ pc = "options"
    /\ LET r == ParseOptions(argv, 3, NoneVal, DecNone)
       IN  IF r.raised
           THEN /\ Crash
                /\ UNCHANGED <<output_csv, min_amount>>
           ELSE /\ output_csv' = r.output_csv
                /\ min_amount' = r.min_amount
                /\ pc' = "env"
                /\ UNCHANGED <<exit_code, stdout>>
    /\ UNCHANGED covVars
    /\ UNCHANGED <<argv, environ, rpc_log, input_csv, token_address, rpc_url,
                   decimals, symbol, in_opened, out_opened, f_out, rows_read,
                   min_scaled, total, total_original, count, dust_count,
                   dust_total, amount, amount_int, report>>

\* rpc_url = os.environ.get('RPC_URL'); if not rpc_url: error, exit(1)
CheckEnv ==
    /\ pc = "env"
    /\ rpc_url' = environ
    /\ IF Falsy(environ)
       THEN Exit(1, "rpc_url_required")
       ELSE /\ pc' = "fetch_decimals"
            /\ stdout' = Append(stdout, "fetching")
            /\ UNCHANGED exit_code
    /\ UNCHANGED covVars
    /\ UNCHANGED <<argv, environ, rpc_log, input_csv, token_address, output_csv,
                   min_amount, decimals, symbol, in_opened, out_opened, f_out,
                   rows_read, min_scaled, total, total_original, count,
                   dust_count, dust_total, amount, amount_int, report>>

\* decimals = get_token_decimals(rpc_url, token_address), inside the try
FetchDecimals ==
    /\ pc = "fetch_decimals"
    /\ \E reply \in DecimalsReplies :
         LET r == GetTokenDecimals(reply)
         IN  /\ rpc_log' = Append(rpc_log, [call |-> "decimals", usable |-> reply \in UsableDecimalsReplies])
             /\ IF r.raised
                THEN /\ pc' = OnFetchError
                     /\ exit_code' = IF OnFetchError = "exit" THEN 1 ELSE exit_code
                     /\ stdout' = Append(stdout, "fetch_error")
                     /\ UNCHANGED decimals
                ELSE /\ decimals' = r.value
                     /\ pc' = "fetch_symbol"
                     /\ UNCHANGED <<exit_code, stdout>>
    /\ UNCHANGED covVars
    /\ UNCHANGED <<argv, environ, input_csv, token_address, output_csv,
                   min_amount, rpc_url, symbol, in_opened, out_opened, f_out,
                   rows_read, min_scaled, total, total_original, count,
                   dust_count, dust_total, amount, amount_int, report>>

\* symbol = get_token_symbol(rpc_url, token_address); the three prints
FetchSymbol ==
    /\ pc = "fetch_symbol"
    /\ \E reply \in SymbolReplies :
         LET r == GetTokenSymbol(reply)
         IN  /\ rpc_log' = Append(rpc_log, [call |-> "symbol", usable |-> reply \in UsableSymbolReplies])
             /\ IF r.raised
                THEN /\ pc' = OnFetchError
                     /\ exit_code' = IF OnFetchError = "exit" THEN 1 ELSE exit_code
                     /\ stdout' = Append(stdout, "fetch_error")
                     /\ UNCHANGED symbol
                ELSE /\ symbol' = r.value
                     /\ pc' = "prepare"
                     /\ stdout' = Append(stdout, "token_info")
                     /\ UNCHANGED exit_code
    /\ UNCHANGED covVars
    /\ UNCHANGED <<argv, environ, input_csv, token_address, output_csv,
                   min_amount, rpc_url, decimals, in_opened, out_opened, f_out,
                   rows_read, min_scaled, total, total_original, count,
                   dust_count, dust_total, amount, amount_int, report>>

\* prepare_csv up to and including the `with open(...)` line
PrepareOpen ==
    /\ pc = "prepare"
    /\ LET outp == IF output_csv = NoneVal THEN "airdrop_prepared.csv" ELSE output_csv
           minA == IF min_amount = DecNone THEN DecimalOfStr("0.00001") ELSE min_amount
           ms   == MinScaled(minA, decimals)
       IN  /\ output_csv' = outp
           /\ min_amount' = minA
           /\ IF ms = Raised
              THEN /\ Crash
                   /\ UNCHANGED <<min_scaled, in_opened, out_opened>>
              ELSE /\ min_scaled' = ms
                   /\ in_opened' = TRUE
                   /\ out_opened' = TRUE
                   /\ pc' = "rows"
                   /\ UNCHANGED <<exit_code, stdout>>
    /\ UNCHANGED covVars
    /\ UNCHANGED <<argv, environ, rpc_log, input_csv, token_address, rpc_url,
                   decimals, symbol, f_out, rows_read, total, total_original,
                   count, dust_count, dust_total, amount, amount_int, report>>

\* one iteration of `for row in reader`
ProcessRow ==
    /\ pc = "rows"
    /\ Len(rows_read) < MaxRows
    /\ \E row \in RowSet :
         /\ rows_read' = Append(rows_read, row)
         /\ IF Len(row) < 2
            THEN UNCHANGED <<pc, exit_code, stdout, f_out, total, total_original,
                             count, dust_count, dust_total, amount, amount_int>>
            ELSE LET addr == Strip(row[1])
                     a    == DecimalOfStr(Strip(row[2]))
                 IN  IF a.kind = "invalid"
                     THEN UNCHANGED <<pc, exit_code, stdout, f_out, total,
                                      total_original, count, dust_count,
                                      dust_total, amount, amount_int>>
                     ELSE /\ amount' = a
                          /\ total_original' = DecAdd(total_original, a)
                          /\ LET n == ScaleAmount(a, decimals)
                             IN  IF n = Raised
                                 THEN /\ Crash
                                      /\ UNCHANGED <<f_out, total, count, dust_count,
                                                     dust_total, amount_int>>
                                 ELSE /\ amount_int' = n
                                      /\ UNCHANGED <<pc, exit_code, stdout>>
                                      /\ IF IntGE(n, min_scaled)
                                         THEN /\ f_out' = Append(f_out, <<addr, n>>)
                                              /\ total' = DecAdd(total, DecimalFromInt(n))
                                              /\ count' = CountAfter(count)
                                              /\ UNCHANGED <<dust_count, dust_total>>
                                         ELSE /\ dust_count' = DustCountAfter(dust_count)
                                              /\ dust_total' = DecAdd(dust_total, a)
                                              /\ UNCHANGED <<f_out, total, count>>
    /\ UNCHANGED covVars
    /\ UNCHANGED <<argv, environ, rpc_log, input_csv, token_address, output_csv,
                   min_amount, rpc_url, decimals, symbol, in_opened, out_opened,
                   min_scaled, report>>

\* end of input: the files are closed, the summary is printed, the script ends
Report ==
    /\ pc = "rows"
    /\ report' = [recipients     |-> count,
                  dust_count     |-> dust_count,
                  dust_total     |-> FormatF(dust_total, 10),
                  original_total |-> FormatF(total_original, 6),
                  final_total    |-> FormatF(DecDivPow10(total, decimals), 6)]
    /\ stdout' = Append(stdout, "report")
    /\ pc' = "done"
    /\ exit_code' = 0
    /\ UNCHANGED covVars
    /\ UNCHANGED <<argv, environ, rpc_log, input_csv, token_address, output_csv,
                   min_amount, rpc_url, decimals, symbol, in_opened, out_opened,
                   f_out, rows_read, min_scaled, total, total_original, count,
                   dust_count, dust_total, amount, amount_int>>

\* ------------------------------------------------------------------------
\* calculate_src_coverage.py
\* ------------------------------------------------------------------------
\* One line of the tool's summary: the directory and file of its first cell
\* ("" when the line is no table row) and, left to right, the (covered, total)
\* pairs of the places where r'(\d+\.\d+)% \((\d+)/(\d+)\)' matches.
Line(dir, file, stats) == [dir |-> dir, file |-> file, stats |-> stats]

LineSet ==
    { Line("", "", <<>>),
      Line("Total", "", << <<13, 15>> >>),
      Line("test", "T.sol", << <<1, 2>> >>),
      Line("src", "A.sol", << <<8, 10>>, <<3, 4>> >>),
      Line("src", "B.sol", << <<5, 5>> >>),
      Line("src", "C.sol", << <<12, 10>> >>),
      Line("src", "D.sol", <<>>),
      Line("src", "E.sol", << <<0, 0>> >>) }

\* '| src/' in line
ContainsSrc(line) == line.dir = "src"

\* re.search(...) : the first match, or none
HasMatch(line) == line.stats # <<>>
FirstMatch(line) == line.stats[1]

\* (a variant without the '| src/' test)
CountedAnyDir(line) == HasMatch(line)

\* the line passes both tests of the loop body
Counted(line) == ContainsSrc(line) /\ HasMatch(line)

\* the exit status chosen in the `if total > 0` block
CoverageExit(c, t) == IF t - c = 0 THEN 0 ELSE 1

\* status of a script that runs off its end
FallThroughExit == 0

CovInit ==
    /\ cov_pc = "run"
    /\ cov_stdout = <<>>
    /\ cov_i = 0
    /\ covered = 0 /\ cov_total = 0
    /\ files = <<>>
    /\ cov_printed = <<>>
    /\ cov_exit = -1

RECURSIVE SeqsUpTo(_, _)
SeqsUpTo(S, n) ==
    IF n = 0 THEN {<<>>}
    ELSE LET shorter == SeqsUpTo(S, n - 1)
         IN  shorter \cup {Append(q, x) : q \in shorter, x \in S}

\* subprocess.run(['forge', 'coverage', ...]): the tool's standard output,
\* whatever its exit status; FileNotFoundError when there is no such tool.
RunTool ==
    /\ cov_pc = "run"
    /\ \/ /\ cov_pc' = "crashed"
          /\ cov_exit' = 1
          /\ UNCHANGED cov_stdout
       \/ /\ cov_stdout' \in SeqsUpTo(LineSet, MaxLines)
          /\ cov_pc' = "parse"
          /\ UNCHANGED cov_exit
    /\ UNCHANGED <<cov_i, covered, cov_total, files, cov_printed>>
    /\ UNCHANGED airdropVars

\* one iteration of `for line in result.stdout.split('\n')`
ParseLine ==
    /\ cov_pc = "parse"
    /\ cov_i < Len(cov_stdout)
    /\ cov_i' = cov_i + 1
    /\ LET line == cov_stdout[cov_i + 1]
       IN  IF Counted(line)
           THEN LET c == FirstMatch(line)[1]
                    t == FirstMatch(line)[2]
                    missing == t - c
                IN  /\ covered' = covered + c
                    /\ cov_total' = cov_total + t
                    /\ files' = IF missing > 0
                                THEN Append(files, <<line.file, c, t, missing>>)
                                ELSE files
           ELSE UNCHANGED <<covered, cov_total, files>>
    /\ UNCHANGED <<cov_pc, cov_stdout, cov_printed, cov_exit>>
    /\ UNCHANGED airdropVars

\* "Files with missing coverage:" and one entry per element of files
PrintMissing ==
    /\ cov_pc = "parse"
    /\ cov_i = Len(cov_stdout)
    /\ cov_printed' = <<"header">> \o [k \in 1..Len(files) |-> <<"missing", files[k][1], files[k][4]>>]
    /\ cov_pc' = "summary"
    /\ UNCHANGED <<cov_stdout, cov_i, covered, cov_total, files, cov_exit>>
    /\ UNCHANGED airdropVars

\* the `if total > 0` block and the end of the script
Summarize ==
    /\ cov_pc = "summary"
    /\ IF cov_total > 0
       THEN /\ cov_exit' = CoverageExit(covered, cov_total)
            /\ cov_printed' = cov_printed \o
                 <<<<"total", covered, cov_total>>, <<"missing_total", cov_total - covered>>>>
                 \o (IF cov_total - covered = 0 THEN <<"achieved">> ELSE <<>>)
       ELSE /\ cov_exit' = FallThroughExit
            /\ UNCHANGED cov_printed
    /\ cov_pc' = "exited"
    /\ UNCHANGED <<cov_stdout, cov_i, covered, cov_total, files>>
    /\ UNCHANGED airdropVars

\* ------------------------------------------------------------------------
\* Specifications
\* ------------------------------------------------------------------------
Init == AirdropInit /\ CovIdle
Next ==
    \/ CheckArgs
    \/ ParseArgs
    \/ CheckEnv
    \/ FetchDecimals
    \/ FetchSymbol
    \/ PrepareOpen
    \/ ProcessRow
    \/ Report
Spec == Init /\ [][Next]_vars

\* The airdrop script is not running.
AirdropIdle ==
    /\ pc = "idle"
    /\ argv = <<>>
    /\ environ = NoneVal
    /\ exit_code = -1
    /\ stdout = <<>>
    /\ rpc_log = <<>>
    /\ input_csv = NoneVal /\ token_address = NoneVal /\ output_csv = NoneVal
    /\ min_amount = DecNone
    /\ rpc_url = NoneVal
    /\ decimals = -1
    /\ symbol = NoneVal
    /\ in_opened = FALSE /\ out_opened = FALSE
    /\ f_out = <<>>
    /\ rows_read = <<>>
    /\ min_scaled = Raised
    /\ total = DecZero /\ total_original = DecZero /\ dust_total = DecZero
    /\ count = 0 /\ dust_count = 0
    /\ amount = DecNone /\ amount_int = Raised
    /\ report = NoReport

CoverageInit == CovInit /\ AirdropIdle
CoverageNext ==
    \/ RunTool
    \/ ParseLine
    \/ PrintMissing
    \/ Summarize
CoverageSpec == CoverageInit /\ [][CoverageNext]_vars

\* ------------------------------------------------------------------------
\* What the properties are stated in terms of
\* ------------------------------------------------------------------------
\* floor(a * 10^d), exactly, for a finite Decimal a
FloorScaled(a, d) ==
    LET e == a.exp + d
        c == StripZeros(a.coef)
    IN  IF e >= 0 THEN MkInt(a.sign, c \o Zeros(e))
        ELSE LET k == -e
                 q == IF k >= Len(c) THEN <<0>> ELSE SubSeq(c, 1, Len(c) - k)
                 r == IF k >= Len(c) THEN c ELSE SubSeq(c, Len(c) - k + 1, Len(c))
             IN  IF a.sign = 1 /\ ~IsZeroMag(r) THEN MkInt(1, AddMag(q, <<1>>))
                 ELSE MkInt(a.sign, q)

\* x and y are the same number
SameNumber(x, y) ==
    /\ IsFinite(x) /\ IsFinite(y)
    /\ IsZeroMag(DecAddExact(x, [y EXCEPT !.sign = 1 - y.sign]).coef)

\* the row has an address and an amount, and the amount is a decimal number
AmountOf(row) == DecimalOfStr(Strip(row[2]))
ValidRow(row) == Len(row) >= 2 /\ AmountOf(row).kind = "num"
MalformedRow(row) == ~ValidRow(row)

NumValid(rows) == Cardinality({i \in 1..Len(rows) : ValidRow(rows[i])})

\* the valid rows at or above the threshold ms, as output lines, in input order
RECURSIVE KeptLines(_, _, _)
KeptLines(rows, d, ms) ==
    IF rows = <<>> THEN <<>>
    ELSE LET row  == rows[Len(rows)]
             rest == KeptLines(SubSeq(rows, 1, Len(rows) - 1), d, ms)
         IN  IF ValidRow(row) /\ IntGE(ScaleAmount(AmountOf(row), d), ms)
             THEN Append(rest, <<Strip(row[1]), ScaleAmount(AmountOf(row), d)>>)
             ELSE rest

\* the exact sum of the original amounts of the valid rows below ms
RECURSIVE DustSum(_, _, _)
DustSum(rows, d, ms) ==
    IF rows = <<>> THEN DecZero
    ELSE LET row  == rows[Len(rows)]
             rest == DustSum(SubSeq(rows, 1, Len(rows) - 1), d, ms)
         IN  IF ValidRow(row) /\ ~IntGE(ScaleAmount(AmountOf(row), d), ms)
             THEN DecAddExact(rest, AmountOf(row))
             ELSE rest

Printed(tag) == \E i \in 1..Len(stdout) : stdout[i] = tag

\* a src/ coverage entry of the tool's output
SrcEntry(line) == line.dir = "src" /\ Len(line.stats) >= 1
SrcEntries == {i \in 1..Len(cov_stdout) : SrcEntry(cov_stdout[i])}

\* the sum of the k-th number (1: covered, 2: total) of the src/ entries
RECURSIVE SumEntries(_, _)
SumEntries(lines, k) ==
    IF lines = <<>> THEN 0
    ELSE (IF SrcEntry(Head(lines)) THEN Head(lines).stats[1][k] ELSE 0)
         + SumEntries(Tail(lines), k)

SumCovered == SumEntries(cov_stdout, 1)
SumTotal == SumEntries(cov_stdout, 2)

\* ------------------------------------------------------------------------
\* Properties
\* ------------------------------------------------------------------------
\* C1: for every row whose amount parses as a decimal number a and every
\* decimals value d, the computed scaledAmount is exactly floor(a * 10^d),
\* never rounded up. Stated here for the amounts a >= 0, where floor and
\* truncation toward zero are the same number.
C1_ScaledIsFloor ==
    (pc \in {"rows", "done"} /\ IsFinite(amount) /\ amount.sign = 0)
        => amount_int = FloorScaled(amount, decimals)

\* C2: when prepare_csv is done, with minScaled = floor(minAmount * 10^decimals),
\* the output holds exactly the valid rows with scaledAmount >= minScaled (as
\* address,scaledAmount, in input order), and the dust total printed (to 10
\* places) is the sum of the original amounts of the valid rows below minScaled.
C2_OutputAndDust ==
    pc = "done" =>
        LET ms == FloorScaled(min_amount, decimals)
        IN  /\ f_out = KeptLines(rows_read, decimals, ms)
            /\ SameNumber(report.dust_total, FormatF(DustSum(rows_read, decimals, ms), 10))

\* C3: recipient count plus dust count is the number of valid rows read: while
\* the rows are processed and when prepare_csv finishes, every valid row has
\* been counted in exactly one of the two and no skipped row in either; the
\* recipients are the lines written.
C3_CountsPartitionValidRows ==
    pc \in {"rows", "done"} =>
        /\ count + dust_count = NumValid(rows_read)
        /\ count = Len(f_out)
        /\ (pc = "done" => report.recipients + report.dust_count = NumValid(rows_read))

C3_Witness ==
    /\ pc = "done"
    /\ count >= 1
    /\ dust_count >= 1
    /\ \E i \in 1..Len(rows_read) :
          \/ Len(rows_read[i]) < 2
          \/ Len(rows_read[i]) >= 2 /\ AmountOf(rows_read[i]).kind = "invalid"

\* the decimals() / symbol() call of this run failed
DecimalsCallFailed ==
    \E i \in 1..Len(rpc_log) : rpc_log[i].call = "decimals" /\ ~rpc_log[i].usable
SymbolCallFailed ==
    \E i \in 1..Len(rpc_log) : rpc_log[i].call = "symbol" /\ ~rpc_log[i].usable

\* C4: a failed decimals() call always ends the run with the error printed and
\* exit status 1, with no second call and prepare_csv never started; a failed
\* symbol() call never ends the run: the symbol is "UNKNOWN", no fetch error is
\* printed and the run goes on to prepare_csv (which may still abort on its
\* own: a NaN minimum or a NaN/Infinity amount).
C4_FetchFailures ==
    /\ DecimalsCallFailed =>
          /\ pc = "exit" /\ exit_code = 1
          /\ Printed("fetch_error")
          /\ Len(rpc_log) = 1
          /\ ~in_opened /\ ~out_opened /\ rows_read = <<>> /\ f_out = <<>>
    /\ SymbolCallFailed =>
          /\ symbol = "UNKNOWN"
          /\ pc \in {"prepare", "rows", "done", "crashed"}
          /\ ~Printed("fetch_error") /\ Printed("token_info")
          /\ (pc = "crashed" => min_scaled = Raised \/ ~IsFinite(amount))

C4_Witness ==
    /\ SymbolCallFailed
    /\ symbol = "UNKNOWN"
    /\ pc = "done" /\ exit_code = 0
    /\ count >= 1

\* C5: when at least one line is a src/ entry and the totals of those entries
\* sum to more than 0, covered and total are the sums over exactly the src/
\* entries, and the exit status is 0 iff total - covered = 0, and 1 otherwise.
C5_ExitReflectsMissing ==
    (cov_pc = "exited" /\ SrcEntries # {} /\ SumTotal > 0) =>
        /\ covered = SumCovered
        /\ cov_total = SumTotal
        /\ (cov_exit = 0 <=> SumTotal - SumCovered = 0)
        /\ (cov_exit = 1 <=> SumTotal - SumCovered # 0)

C5_Witness ==
    /\ cov_pc = "exited"
    /\ covered = 13 /\ cov_total = 15
    /\ cov_exit = 1
    /\ \E i \in 1..Len(cov_stdout) : ~SrcEntry(cov_stdout[i]) /\ Len(cov_stdout[i].stats) >= 1

\* C6: when no line of the tool's output is a src/ coverage entry (aggregated
\* total 0), the script exits with status 1, not 0.
C6_NoEntriesFails ==
    (cov_pc = "exited" /\ SrcEntries = {}) => cov_exit = 1

\* C7: with fewer than 2 arguments after the program name the tool prints the
\* usage and exits with status 1; with RPC_URL missing or empty the run ends
\* with status 1; in both cases without any RPC call and without the input or
\* output file ever being opened.
C7_ConfigErrorsFirst ==
    (Len(argv) < 3 \/ environ \in {NoneVal, ""}) =>
        /\ pc \in {"main", "options", "env", "exit", "crashed"}
        /\ rpc_log = <<>>
        /\ ~in_opened /\ ~out_opened /\ f_out = <<>> /\ rows_read = <<>>
        /\ (pc \in {"exit", "crashed"} => exit_code = 1)
        /\ (pc = "exit" /\ Len(argv) < 3 => stdout = <<"usage">>)
        /\ (pc = "exit" /\ Len(argv) >= 3 => stdout = <<"rpc_url_required">>)

C7_Witness ==
    /\ pc = "exit" /\ exit_code = 1
    /\ Len(argv) >= 3 /\ environ = ""
    /\ stdout = <<"rpc_url_required">>

\* C8: a malformed row (fewer than 2 columns, or an amount that is not a
\* decimal number) is skipped: reading it leaves the output, the counts and
\* the totals unchanged and the loop goes on; and no row ends the run.
C8_MalformedRowsSkipped ==
    [][ (pc = "rows" /\ rows_read' # rows_read) =>
          /\ pc' = "rows"
          /\ MalformedRow(rows_read'[Len(rows_read')]) =>
                /\ f_out' = f_out
                /\ count' = count /\ dust_count' = dust_count
                /\ dust_total' = dust_total /\ total_original' = total_original
                /\ total' = total ]_vars

\* the order of the requests and of the output file's creation, in one state
C9_Order ==
    /\ Cardinality({i \in 1..Len(rpc_log) : rpc_log[i].call = "decimals"}) <= 1
    /\ Cardinality({i \in 1..Len(rpc_log) : rpc_log[i].call = "symbol"}) <= 1
    /\ \A i \in 1..Len(rpc_log) :
          rpc_log[i].call = "symbol" =>
             i = 2 /\ rpc_log[1].call = "decimals" /\ rpc_log[1].usable
    /\ \A i \in 1..Len(rpc_log) : ~rpc_log[i].usable => i = Len(rpc_log)
    /\ (out_opened \/ f_out # <<>>) =>
          /\ decimals >= 0
          /\ Len(rpc_log) >= 1 /\ rpc_log[1].call = "decimals" /\ rpc_log[1].usable

\* C9: decimals() is called at most once, symbol() at most once and only after
\* decimals() succeeded, nothing is called again after a failure, the output
\* file is created only once the decimals are known, and the decimals do not
\* change from then on.
C9_SingleAttemptInOrder ==
    [][ /\ C9_Order'
        /\ (decimals >= 0 => decimals' = decimals) ]_vars

C9_Witness ==
    /\ pc = "done"
    /\ Len(rpc_log) = 2
    /\ out_opened /\ Len(f_out) >= 1 /\ Len(rows_read) = MaxRows
    /\ decimals = 18

\* C10: when the script exits with status 0 after matching at least one line,
\* no missing-coverage entry was recorded, and the aggregated missing count is
\* the sum of the recorded deficits.
C10_ExitZeroNoMissing ==
    (cov_pc = "exited" /\ cov_exit = 0 /\ SrcEntries # {}) =>
        /\ files = <<>>
        /\ cov_total - covered = 0
====
